---- MODULE Spec2Model ----
(***************************************************************************)
(* Model of filesindir_recursive.py: scan_directories, the two validation  *)
(* decorators, get_files_by_extension with its three depth modes and the   *)
(* nested collect_files recursion, run against a small file system whose   *)
(* directories may be symbolic links or may fail to be listed or stat'ed.  *)
(***************************************************************************)
EXTENDS Integers, Sequences, FiniteSets, TLC

VARIABLES
    parent,           \* file system: parent[i], the real directory holding entry i
    node,             \* file system: node[i], what entry i is (0 is the top directory)
    py,               \* the pathlib the script runs under
    dir_depth_pairs,  \* scan_directories' first argument
    extensions,       \* scan_directories' second argument
    idx,              \* position of the for loop in itertools.product(...)
    pc,               \* control point of the script
    stack,            \* the active collect_files calls, outermost first
    files,            \* the files list of get_files_by_extension
    visited,          \* every collect_files call made by the current scan
    io,               \* file system calls made by the current process_and_print_files call
    report,           \* what the current process_and_print_files call printed
    calls,            \* the process_and_print_files calls made so far
    exc               \* the exception propagating out of scan_directories, if any

vars == <<parent, node, py, dir_depth_pairs, extensions, idx, pc, stack, files,
          visited, io, report, calls, exc>>

fsvars == <<parent, node, py, dir_depth_pairs, extensions>>

-----------------------------------------------------------------------------
(* Bounds of the model *)

MaxNodes == 3
MaxDepth == 2
MaxFaults == 1
MaxLinks == 1
DriverNodes == 1
DriverPairs == 2
DriverExts == 2

-----------------------------------------------------------------------------
(* Strings *)

KNOWN_EXTENSIONS ==
    {".txt", ".docx", ".pdf", ".py", ".md", ".csv", ".xlsx",
     ".jpg", ".png", ".gif", ".mp4", ".mp3", ".zip", ".json"}

\* str.lower(), on the strings the model uses
Lower(s) ==
    CASE s = ".TXT" -> ".txt"
      [] OTHER -> s

\* the extensions handed to the scan
Exts == {".txt", ".TXT", ".xyz"}

\* the suffix the name of a file ends with; the name of a directory ends
\* with ".txt" or with none (""), that of a symbolic link with none
Suffixes == {".txt", ".TXT"}

-----------------------------------------------------------------------------
(* The file system *)

Pythons == {"py311", "py312", "py313"}

File(s) == [kind |-> "file", suffix |-> s, fault |-> "none", target |-> 0]
Dir(f) == [kind |-> "dir", suffix |-> "", fault |-> f, target |-> 0]
DirNamed(s) == [kind |-> "dir", suffix |-> s, fault |-> "none", target |-> 0]
Link(t) == [kind |-> "link", suffix |-> "", fault |-> "none", target |-> t]

\* "perm": os.scandir/os.listdir of the directory raise PermissionError (mode 000)
\* "eio":  they raise another OSError (EIO, ESTALE, EMFILE)
\* "fuse": os.stat of the directory raises PermissionError, as does listing it
\*         (a FUSE mount point of another user)
Faults == {"perm", "eio", "fuse"}

NodeTypes(n) ==
    {File(s) : s \in Suffixes} \cup {Dir("none"), DirNamed(".txt")}
        \cup {Dir(f) : f \in Faults} \cup {Link(t) : t \in 0..n}

Nodes == DOMAIN node

\* the path of a directory argument that names nothing
NoEntry == MaxNodes + 1

Exists(i) == i \in Nodes

\* os.stat follows a symbolic link
Resolve(i) == IF node[i].kind = "link" THEN node[i].target ELSE i

\* the entries of real directory d
Children(d) == {i \in Nodes \ {0} : parent[i] = d}

\* the trees of n entries, numbered so that parents come first
Shapes(n) ==
    {par \in [1..n -> 0..(n - 1)] :
        \A i \in 1..n : par[i] < i /\ (i > 1 => par[i - 1] <= par[i])}

\* entries live in real directories; a symbolic link names a real directory
WellTyped(n, par, ty) ==
    /\ \A i \in 1..n : IF par[i] = 0 THEN TRUE ELSE ty[par[i]].kind = "dir"
    /\ \A i \in 1..n :
          ty[i].kind = "link" =>
              IF ty[i].target = 0 THEN TRUE ELSE ty[ty[i].target].kind = "dir"
    /\ Cardinality({i \in 1..n : ty[i].fault # "none"}) <= MaxFaults
    /\ Cardinality({i \in 1..n : ty[i].kind = "link"}) <= MaxLinks

FileSystems(maxNodes) ==
    UNION {UNION {{[parent |-> par,
                    node |-> [i \in 0..n |-> IF i = 0 THEN Dir("none") ELSE ty[i]]] :
                      ty \in {t \in [1..n -> NodeTypes(n)] : WellTyped(n, par, t)}} :
                  par \in Shapes(n)} :
           n \in 0..maxNodes}

-----------------------------------------------------------------------------
(* pathlib *)

\* fnmatch of the name against "*<extension>": case-sensitive on POSIX
Matches(i, extension) == node[i].suffix = extension

\* a set of entries in directory order (the order of their numbers)
RECURSIVE InOrder(_)
InOrder(S) ==
    IF S = {} THEN <<>>
    ELSE LET m == CHOOSE x \in S : \A y \in S : x <= y
         IN <<m>> \o InOrder(S \ {m})

\* Path.exists() and Path.is_dir(): "true", "false" or "raise"
\* (os.stat errors other than ENOENT, ENOTDIR, EBADF, ELOOP propagate up to
\* Python 3.12; from 3.13 on os.path.exists / os.path.isdir answer False)
StatRaises(i) == Exists(i) /\ node[Resolve(i)].fault = "fuse"

PathExists(i) ==
    IF StatRaises(i) THEN (IF py \in {"py311", "py312"} THEN "raise" ELSE "false")
    ELSE IF Exists(i) THEN "true" ELSE "false"

IsDir(i) ==
    IF StatRaises(i) THEN (IF py \in {"py311", "py312"} THEN "raise" ELSE "false")
    ELSE IF Exists(i) /\ node[Resolve(i)].kind = "dir" THEN "true" ELSE "false"

\* os.scandir / os.listdir of real directory d
Listing(d) ==
    CASE node[d].fault = "none" -> "ok"
      [] node[d].fault = "eio" -> "OSError"
      [] OTHER -> "PermissionError"

\* whether a selector of Path.glob lets a failed listing propagate:
\* PermissionError is swallowed by every pathlib, any other OSError only
\* from Python 3.12 on
SelectorRaises(d) == Listing(d) = "OSError" /\ py = "py311"

\* the paths prefix/q of the relative paths q
Under(prefix, found) == [k \in 1..Len(found) |-> prefix \o found[k]]

\* list(directory.glob("*<extension>")) on real directory d: the matching
\* entries of d, as paths relative to d
Glob(d, extension) ==
    [raised |-> SelectorRaises(d),
     found |-> IF Listing(d) = "ok"
               THEN LET m == InOrder({c \in Children(d) : Matches(c, extension)})
                    IN [k \in 1..Len(m) |-> <<m[k]>>]
               ELSE <<>>]

\* the directories a "**" selector descends into: DirEntry.is_dir with
\* follow_symlinks=False, so a symbolic link to a directory is not one
Descended(d) == {c \in Children(d) : node[c].kind = "dir"}

\* list(directory.rglob("*<extension>")), i.e. the pattern "**/*<extension>",
\* on real directory d: every directory reached is globbed, and one whose
\* listing fails is not descended
RECURSIVE RGlobFrom(_, _, _)
RECURSIVE RGlobSubs(_, _, _)
RGlobFrom(prefix, d, extension) ==
    IF Listing(d) # "ok" THEN [raised |-> SelectorRaises(d), found |-> <<>>]
    ELSE LET here == Under(prefix, Glob(d, extension).found)
             below == RGlobSubs(prefix, InOrder(Descended(d)), extension)
         IN [raised |-> below.raised, found |-> here \o below.found]

RGlobSubs(prefix, subs, extension) ==
    IF subs = <<>> THEN [raised |-> FALSE, found |-> <<>>]
    ELSE LET first == RGlobFrom(Append(prefix, Head(subs)), Head(subs), extension)
             rest == RGlobSubs(prefix, Tail(subs), extension)
         IN [raised |-> first.raised \/ rest.raised,
             found |-> first.found \o rest.found]

RGlob(d, extension) == RGlobFrom(<<>>, d, extension)

-----------------------------------------------------------------------------
(* The script *)

\* itertools.product(dir_depth_pairs, extensions): the k-th combination
Product(pairs, exts) ==
    [k \in 1..(Len(pairs) * Len(exts)) |->
        [directory |-> pairs[((k - 1) \div Len(exts)) + 1][1],
         depth |-> pairs[((k - 1) \div Len(exts)) + 1][2],
         extension |-> exts[((k - 1) % Len(exts)) + 1]]]

Combos == Product(dir_depth_pairs, extensions)

\* the arguments of the process_and_print_files call in progress
Cur == Combos[idx]

NoReport == [diag |-> "none", names |-> <<>>, printed |-> FALSE]

\* f.name of a path: the name of its last entry
Name(p) == <<p[Len(p)], node[p[Len(p)]].suffix>>

InitWith(maxNodes, maxPairs, maxExts) ==
    /\ \E fs \in FileSystems(maxNodes) : parent = fs.parent /\ node = fs.node
    /\ py \in Pythons
    /\ \E np \in 1..maxPairs :
         dir_depth_pairs \in [1..np -> {0, 1, NoEntry} \X (-1..MaxDepth)]
    /\ \E ne \in 1..maxExts : extensions \in [1..ne -> Exts]
    /\ idx = 1
    /\ pc = "loop"
    /\ stack = <<>>
    /\ files = <<>>
    /\ visited = <<>>
    /\ io = {}
    /\ report = NoReport
    /\ calls = <<>>
    /\ exc = "none"

\* one call of process_and_print_files on one directory tree
Init == InitWith(MaxNodes, 1, 1)

\* scan_directories over several pairs and extensions
DriverInit == InitWith(DriverNodes, DriverPairs, DriverExts)

Wrappers_Swapped == <<"validate_extension", "validate_path">>

\* the decorators of process_and_print_files, outermost first
Wrappers == <<"validate_path", "validate_extension">>

\* "return func(directory, extension, depth)" in the wrapper at control
\* point w: the next wrapper, or process_and_print_files itself
Wrapped(w) ==
    IF w = Wrappers[1] THEN Wrappers[2] ELSE "get_files"

\* scan_directories, the for statement: the next combination is handed to
\* process_and_print_files, i.e. to its outermost wrapper
ScanDirectories ==
    /\ pc = "loop"
    /\ idx <= Len(Combos)
    /\ calls' = Append(calls, Cur)
    /\ pc' = Wrappers[1]
    /\ io' = {}
    /\ report' = NoReport
    /\ files' = <<>>
    /\ visited' = <<>>
    /\ UNCHANGED <<fsvars, idx, stack, exc>>

\* scan_directories, the for statement exhausted
ScanDirectoriesReturn ==
    /\ pc = "loop"
    /\ idx > Len(Combos)
    /\ pc' = "exited"
    /\ UNCHANGED <<fsvars, idx, stack, files, visited, io, report, calls, exc>>

\* the return of process_and_print_files to the for statement
Returned(r) ==
    /\ report' = r
    /\ idx' = idx + 1
    /\ pc' = "loop"
    /\ exc' = exc

\* an exception leaves process_and_print_files and, nothing catching it,
\* scan_directories
Raised(e) ==
    /\ pc' = "raised"
    /\ exc' = e
    /\ UNCHANGED <<idx, report>>

PathVerdict_NoIsDir(directory) ==
    CASE PathExists(directory) = "raise" -> "raise"
      [] PathExists(directory) = "false" -> "does not exist"
      [] OTHER -> "ok"

\* the two tests of validate_path.wrapper
PathVerdict(directory) ==
    CASE PathExists(directory) = "raise" -> "raise"
      [] PathExists(directory) = "false" -> "does not exist"
      [] IsDir(directory) = "raise" -> "raise"
      [] IsDir(directory) = "false" -> "is not a directory"
      [] OTHER -> "ok"

\* validate_path.wrapper
ValidatePath ==
    /\ pc = "validate_path"
    /\ LET v == PathVerdict(Cur.directory)
       IN /\ io' = io \cup {"exists"}
                      \cup (IF PathExists(Cur.directory) = "true"
                            THEN {"is_dir"} ELSE {})
          /\ CASE v = "raise" -> Raised("stat")
               [] v = "ok" -> pc' = Wrapped("validate_path")
                              /\ UNCHANGED <<idx, report, exc>>
               [] OTHER -> Returned([report EXCEPT !.diag = v])
    /\ UNCHANGED <<fsvars, stack, files, visited, calls>>

\* validate_extension.wrapper
ValidateExtension ==
    /\ pc = "validate_extension"
    /\ IF Lower(Cur.extension) \notin KNOWN_EXTENSIONS
       THEN Returned([report EXCEPT !.diag = "Unknown extension"])
       ELSE pc' = Wrapped("validate_extension") /\ UNCHANGED <<idx, report, exc>>
    /\ UNCHANGED <<fsvars, stack, files, visited, io, calls>>

Mode_ZeroUnlimited(depth) ==
    CASE depth = 0 -> "rglob"
      [] depth = -1 -> "rglob"
      [] OTHER -> "collect_files"

Mode_NoUnlimited(depth) ==
    CASE depth = 0 -> "glob"
      [] OTHER -> "collect_files"

\* the if / elif / else of get_files_by_extension
Mode(depth) ==
    CASE depth = 0 -> "glob"
      [] depth = -1 -> "rglob"
      [] OTHER -> "collect_files"

Descend_OffByOne(current_depth, max_depth) == current_depth <= max_depth

\* "if current_depth < max_depth"
Descend(current_depth, max_depth) == current_depth < max_depth

NextDepth_Same(current_depth) == current_depth

\* the depth handed to the recursive call
NextDepth(current_depth) == current_depth + 1

CollectGlob_Recursive(d, extension) == RGlob(d, extension)

\* "current_dir.glob(f"*{extension}")" in collect_files
CollectGlob(d, extension) == Glob(d, extension)

\* a call collect_files(current_dir, current_depth, max_depth) up to its for
\* statement: the glob, the depth test and the start of iterdir(). Any
\* PermissionError or OSError is caught and the call returns. The result is
\* the files list and the call stack afterwards: the call stays on the
\* stack only if it entered the loop.
CollectFiles(stk, fl, path, current_depth, max_depth, extension) ==
    LET current_dir == IF path = <<>> THEN Resolve(Cur.directory)
                       ELSE Resolve(path[Len(path)])
        g == CollectGlob(current_dir, extension)
        iterates == ~g.raised /\ Descend(current_depth, max_depth)
    IN [files |-> IF g.raised THEN fl ELSE fl \o Under(path, g.found),
        stack |-> IF iterates /\ Listing(current_dir) = "ok"
                  THEN Append(stk, [path |-> path,
                                    current_depth |-> current_depth,
                                    todo |-> Children(current_dir)])
                  ELSE stk,
        io |-> {"glob"} \cup (IF iterates THEN {"iterdir"} ELSE {})]

\* after a step of the recursion: get_files_by_extension returns files when
\* the outermost collect_files call has returned
AfterCollect(stk) == pc' = IF stk = <<>> THEN "print" ELSE "collect"

\* get_files_by_extension
GetFilesByExtension ==
    /\ pc = "get_files"
    /\ LET root == Resolve(Cur.directory)
           g == IF Mode(Cur.depth) = "glob" THEN Glob(root, Cur.extension)
                ELSE RGlob(root, Cur.extension)
           c == CollectFiles(<<>>, <<>>, <<>>, 0, Cur.depth, Cur.extension)
       IN IF Mode(Cur.depth) \in {"glob", "rglob"}
          THEN /\ io' = io \cup {Mode(Cur.depth)}
               /\ IF g.raised
                  THEN Raised("listing") /\ UNCHANGED files
                  ELSE /\ files' = g.found
                       /\ pc' = "print"
                       /\ UNCHANGED <<idx, report, exc>>
               /\ UNCHANGED <<stack, visited>>
          ELSE /\ files' = c.files
               /\ stack' = c.stack
               /\ visited' = <<<<>>>>
               /\ io' = io \cup c.io
               /\ AfterCollect(c.stack)
               /\ UNCHANGED <<idx, report, exc>>
    /\ UNCHANGED <<fsvars, calls>>

Top == stack[Len(stack)]
Pop == SubSeq(stack, 1, Len(stack) - 1)

\* collect_files, one turn of "for subdir in current_dir.iterdir()"; the
\* order of iterdir() is arbitrary. An exception of subdir.is_dir() is
\* caught by the except clause of this call, which returns.
CollectFilesLoop ==
    /\ pc = "collect"
    /\ stack # <<>>
    /\ \E subdir \in Top.todo :
         LET rest == [stack EXCEPT ![Len(stack)].todo = Top.todo \ {subdir}]
             c == CollectFiles(rest, files, Append(Top.path, subdir),
                               NextDepth(Top.current_depth), Cur.depth,
                               Cur.extension)
         IN CASE IsDir(subdir) = "raise" ->
                   /\ stack' = Pop
                   /\ AfterCollect(Pop)
                   /\ io' = io \cup {"is_dir"}
                   /\ UNCHANGED <<files, visited>>
              [] IsDir(subdir) = "false" ->
                   /\ stack' = rest
                   /\ io' = io \cup {"is_dir"}
                   /\ UNCHANGED <<files, visited, pc>>
              [] OTHER ->
                   /\ stack' = c.stack
                   /\ files' = c.files
                   /\ visited' = Append(visited, Append(Top.path, subdir))
                   /\ io' = io \cup {"is_dir"} \cup c.io
                   /\ UNCHANGED pc
    /\ UNCHANGED <<fsvars, idx, report, calls, exc>>

\* collect_files, the for statement exhausted: the call returns
CollectFilesReturn ==
    /\ pc = "collect"
    /\ stack # <<>>
    /\ Top.todo = {}
    /\ stack' = Pop
    /\ AfterCollect(Pop)
    /\ UNCHANGED <<fsvars, idx, files, visited, io, report, calls, exc>>

\* process_and_print_files, after get_files_by_extension
ProcessAndPrintFiles ==
    /\ pc = "print"
    /\ Returned([report EXCEPT !.names = [k \in 1..Len(files) |-> Name(files[k])],
                               !.printed = TRUE])
    /\ UNCHANGED <<fsvars, stack, files, visited, io, calls>>

Next ==
    \/ ScanDirectories
    \/ ScanDirectoriesReturn
    \/ ValidatePath
    \/ ValidateExtension
    \/ GetFilesByExtension
    \/ CollectFilesLoop
    \/ CollectFilesReturn
    \/ ProcessAndPrintFiles

Spec == Init /\ [][Next]_vars

DriverSpec == DriverInit /\ [][Next]_vars

\* the interpreter runs the script on: a step that can be taken is taken
FairSpec == Spec /\ WF_vars(Next)

-----------------------------------------------------------------------------
(* Vocabulary of the properties *)

\* the process_and_print_files call made last
Last == calls[Len(calls)]

\* get_files_by_extension has returned its list to process_and_print_files
Scanned == calls # <<>> /\ pc = "print"

\* process_and_print_files has returned to scan_directories
Finished == calls # <<>> /\ pc \in {"loop", "exited"}

Seen(seq) == {seq[k] : k \in 1..Len(seq)}

Once(seq) == \A j, k \in 1..Len(seq) : seq[j] = seq[k] => j = k

\* the directory the scan starts from
Root == Resolve(Last.directory)

\* entry i is a directory, or a symbolic link to one
IsDirectory(i) == node[Resolve(i)].kind = "dir"

\* p names an entry below the scanned directory: each entry of p lies in
\* the directory the one before it names
IsPath(p) ==
    /\ Len(p) >= 1
    /\ p[1] \in Children(Root)
    /\ \A k \in 1..(Len(p) - 1) :
          IsDirectory(p[k]) /\ p[k + 1] \in Children(Resolve(p[k]))

\* the paths of at most L entries below the scanned directory
Paths(L) == UNION {{p \in [1..k -> Nodes \ {0}] : IsPath(p)} : k \in 1..L}

\* the directory paths of at most L entries, the scanned directory included
DirPaths(L) == {<<>>} \cup {p \in Paths(L) : IsDirectory(p[Len(p)])}

\* the nesting depth of the directory that holds the entry p names
Nesting(p) == Len(p) - 1

Entry(p) == p[Len(p)]

NoFaults == \A i \in Nodes : node[i].fault = "none"

\* every directory on the way to the entry p names can be listed
Listable(p) ==
    /\ node[Root].fault = "none"
    /\ \A k \in 1..(Len(p) - 1) : node[Resolve(p[k])].fault = "none"

\* no is_dir() call on an entry of the tree raises
NoStatError == \A i \in Nodes : IsDir(i) # "raise"

-----------------------------------------------------------------------------
(* Depth modes *)

C2_CurrentDirectoryOnly ==
    (Scanned /\ Last.depth = 0) =>
        /\ Once(files)
        /\ \A p \in Seen(files) :
              /\ Len(p) = 1
              /\ parent[p[1]] = Root
              /\ Matches(p[1], Last.extension)
        /\ node[Root].fault = "none" =>
              \A c \in Nodes \ {0} :
                  (parent[c] = Root /\ Matches(c, Last.extension))
                      => <<c>> \in Seen(files)

\* a child of the scanned directory is returned while a matching entry of
\* one of its subdirectories is not
C2_Witness ==
    /\ Scanned /\ Last.depth = 0
    /\ files # <<>>
    /\ \E q \in Paths(2) :
          Len(q) = 2 /\ Matches(Entry(q), Last.extension) /\ q \notin Seen(files)

\* the real directories between the scanned directory and entry c, when c
\* lies in the tree below the scanned directory
RECURSIVE Beneath(_)
Beneath(c) ==
    IF c = 0 THEN FALSE
    ELSE IF parent[c] = Root THEN TRUE
    ELSE Beneath(parent[c])

\* the path of entry c of the tree below the scanned directory
RECURSIVE PathTo(_)
PathTo(c) ==
    IF parent[c] = Root THEN <<c>> ELSE Append(PathTo(parent[c]), c)

\* C3: a scan with depth = -1 returns only entries of the tree beneath the
\* scanned directory whose name matches the extension, each once and at
\* whatever nesting depth; every such entry whose directories can all be
\* listed is returned.
C3_Unlimited ==
    (Scanned /\ Last.depth = -1) =>
        /\ Once(files)
        /\ \A p \in Seen(files) :
              /\ Beneath(Entry(p))
              /\ p = PathTo(Entry(p))
              /\ Matches(Entry(p), Last.extension)
        /\ \A c \in Nodes :
              (Beneath(c) /\ Matches(c, Last.extension) /\ Listable(PathTo(c)))
                  => PathTo(c) \in Seen(files)

\* an unlimited scan returns an entry two directories below the scanned one
C3_Witness ==
    /\ Scanned /\ Last.depth = -1
    /\ \E p \in Seen(files) : Nesting(p) >= 2

-----------------------------------------------------------------------------
(* Validation *)

UnknownExtension == calls # <<>> /\ Lower(Last.extension) \notin KNOWN_EXTENSIONS

\* the directory argument names a directory that can be stat'ed
ValidRoot ==
    /\ Exists(Last.directory)
    /\ ~StatRaises(Last.directory)
    /\ IsDirectory(Last.directory)

\* the directory argument names nothing
MissingRoot == ~Exists(Last.directory)

\* the directory argument names something that is not a directory
NotADirectory ==
    /\ Exists(Last.directory)
    /\ ~StatRaises(Last.directory)
    /\ ~IsDirectory(Last.directory)

Listings == {"glob", "rglob", "iterdir"}

C7_InvalidRoot ==
    (calls # <<>> /\ (MissingRoot \/ NotADirectory)) =>
        /\ pc \in {"validate_path", "loop", "exited"}
        /\ io \cap Listings = {}
        /\ report.names = <<>> /\ ~report.printed
        /\ exc = "none"
        /\ Finished =>
              report.diag = IF MissingRoot THEN "does not exist"
                            ELSE "is not a directory"

\* a path that exists and is no directory has been reported as such and the
\* call has returned
C7_Witness ==
    /\ Finished /\ NotADirectory
    /\ Lower(Last.extension) \in KNOWN_EXTENSIONS
    /\ report.diag = "is not a directory"
    /\ io = {"exists", "is_dir"}

-----------------------------------------------------------------------------
(* The bounded traversal *)

\* the directory a collect_files call on path P works on
DirOf(P) == IF P = <<>> THEN Root ELSE Resolve(Entry(P))

\* the number of collect_files calls made on directory d
Visits(d) == Cardinality({k \in 1..Len(visited) : DirOf(visited[k]) = d})

\* every entry on the way to, and including, the one P names can be stat'ed
\* and every directory above it listed
Accessible(P) ==
    /\ Listable(P)
    /\ \A k \in 1..Len(P) : node[Resolve(P[k])].fault # "fuse"

NoLinks == \A i \in Nodes : node[i].kind # "link"

RECURSIVE CallSteps(_, _)
RECURSIVE TurnSteps(_, _)
CallSteps(d, cd) ==
    IF cd < Last.depth /\ Listing(d) = "ok"
    THEN 1 + TurnSteps(Children(d), cd)
    ELSE 0

TurnSteps(todo, cd) ==
    IF todo = {} THEN 0
    ELSE LET c == CHOOSE x \in todo : TRUE
         IN 1 + (IF IsDir(c) = "true" THEN CallSteps(Resolve(c), cd + 1) ELSE 0)
              + TurnSteps(todo \ {c}, cd)

RECURSIVE StepsLeft(_)
StepsLeft(stk) ==
    IF stk = <<>> THEN 0
    ELSE 1 + TurnSteps(Head(stk).todo, Head(stk).current_depth)
           + StepsLeft(Tail(stk))

\* C10: in a scan with depth = N > 0 the k-th nested collect_files call
\* has current_depth k - 1 and no call is made on a path of more than N
\* entries, so no more than N calls are in their loop at once (and one more,
\* at depth N, is running); the traversal can always take a step, and every
\* step either returns the list or lowers a bound on the steps left, so the
\* scan returns, also on a tree with a cycle of symbolic links.
C10_Terminates ==
    /\ [](pc = "collect" =>
            /\ Len(stack) <= Last.depth
            /\ \A k \in 1..Len(stack) :
                  stack[k].current_depth = k - 1 /\ Len(stack[k].path) = k - 1
            /\ \A P \in Seen(visited) : Len(P) <= Last.depth
            /\ ENABLED (CollectFilesLoop \/ CollectFilesReturn))
    /\ [][pc = "collect" =>
            \/ pc' = "print" /\ stack' = <<>>
            \/ pc' = "collect" /\ StepsLeft(stack') < StepsLeft(stack)]_vars

\* a scan has returned after following a symbolic link round a cycle down
\* to depth N
C10_Witness ==
    /\ Scanned /\ Last.depth > 0
    /\ \E P \in Seen(visited) :
          /\ Len(P) = Last.depth
          /\ \E j, k \in 1..Len(P) : j < k /\ P[j] = P[k]

-----------------------------------------------------------------------------
(* Access errors *)

IsPrefix(P, p) == Len(P) <= Len(p) /\ SubSeq(p, 1, Len(P)) = P

\* s is a subdirectory of the directory of P whose access raises, t a
\* sibling whose access does not
FailingSibling(P, s, t) ==
    /\ Len(P) < Last.depth
    /\ node[DirOf(P)].fault = "none"
    /\ s \in Children(DirOf(P)) /\ t \in Children(DirOf(P)) /\ s # t
    /\ IsDirectory(s) /\ node[Resolve(s)].fault # "none"
    /\ IsDirectory(t) /\ node[Resolve(t)].fault = "none"

\* C5 as stated: in a scan with depth = N > 0, a subdirectory whose access
\* raises contributes no entry, and each of its siblings is scanned and has
\* its matching entries in the result.
C5_SiblingsStillScanned ==
    (Scanned /\ Last.depth > 0) =>
        \A P \in Seen(visited) : \A s, t \in Nodes :
            FailingSibling(P, s, t) =>
                /\ \A p \in Seen(files) : ~IsPrefix(Append(P, s), p)
                /\ Append(P, t) \in Seen(visited)
                /\ \A c \in Children(Resolve(t)) :
                      Matches(c, Last.extension)
                          => (Append(P, t) \o <<c>>) \in Seen(files)

\* C6 as stated: in no depth mode does an error raised while a directory is
\* listed leave the scan.
C6_ListingErrorsAbsorbed == exc # "listing"

\* C8 as stated, for runs in which no stat call raises: when scan_directories
\* ends, process_and_print_files has been called once for every combination,
\* in the order of the product, whatever happened in the earlier calls.
C8_EveryCombinationAttempted ==
    /\ Len(calls) <= Len(Combos)
    /\ \A k \in 1..Len(calls) : calls[k] = Combos[k]
    /\ (pc \in {"exited", "raised"} /\ exc # "stat") => calls = Combos

====
